---- MODULE Spec2Model ----
(***************************************************************************)
(* The ingestion / normalisation / aggregation pipelines of the "Love in   *)
(* Arabic Literature" site, one state machine per page load:               *)
(*   "data"        src/unnamed/part_000  (data.js)                          *)
(*   "v1500"       src/unnamed/part_001 lines 1-558   (results.js v1500)    *)
(*   "results"     src/unnamed/part_001 lines 560-1149 (results.js)         *)
(*   "continuous"  src/unnamed/part_001 lines 1151-1765 (results.js,        *)
(*                 continuous scatter)                                      *)
(* Strings are TLA+ strings read character by character; a missing value   *)
(* (null / undefined) is the empty tuple None and a present one Some(v).   *)
(***************************************************************************)
EXTENDS Integers, Sequences, FiniteSets, Bags, TLC

(* ------------------------------------------------------------------ *)
(* Option values: null / undefined against a value                     *)
(* ------------------------------------------------------------------ *)
None == <<>>
Some(v) == <<v>>
IsSome(o) == Len(o) = 1
Get(o) == o[1]

(* ------------------------------------------------------------------ *)
(* JavaScript strings                                                  *)
(* ------------------------------------------------------------------ *)
Ch(s, i) == SubSeq(s, i, i)

LowerAlpha == "abcdefghijklmnopqrstuvwxyz"
UpperAlpha == "ABCDEFGHIJKLMNOPQRSTUVWXYZ"
Digits == "0123456789"

PosIn(c, alpha) ==
  IF \E i \in 1..Len(alpha) : Ch(alpha, i) = c
  THEN CHOOSE i \in 1..Len(alpha) : Ch(alpha, i) = c
  ELSE 0

IsDigit(c) == PosIn(c, Digits) > 0
DigitVal(c) == PosIn(c, Digits) - 1

UpperCh(c) == IF PosIn(c, LowerAlpha) > 0 THEN Ch(UpperAlpha, PosIn(c, LowerAlpha)) ELSE c
LowerCh(c) == IF PosIn(c, UpperAlpha) > 0 THEN Ch(LowerAlpha, PosIn(c, UpperAlpha)) ELSE c

RECURSIVE toUpperCase(_)
toUpperCase(s) == IF s = "" THEN "" ELSE UpperCh(Ch(s, 1)) \o toUpperCase(Tail(s))

RECURSIVE toLowerCase(_)
toLowerCase(s) == IF s = "" THEN "" ELSE LowerCh(Ch(s, 1)) \o toLowerCase(Tail(s))

RECURSIVE trimStart(_)
trimStart(s) == IF s # "" /\ Ch(s, 1) = " " THEN trimStart(Tail(s)) ELSE s

RECURSIVE trimEnd(_)
trimEnd(s) ==
  IF s # "" /\ Ch(s, Len(s)) = " " THEN trimEnd(SubSeq(s, 1, Len(s) - 1)) ELSE s

trim(s) == trimEnd(trimStart(s))

startsWith(s, p) == Len(p) <= Len(s) /\ SubSeq(s, 1, Len(p)) = p

includes(s, sub) ==
  \E i \in 1..(Len(s) - Len(sub) + 1) : SubSeq(s, i, i + Len(sub) - 1) = sub

\* String.prototype.replace with a string pattern: the first occurrence only.
IndexOf(s, pat) ==
  CHOOSE i \in 1..(Len(s) - Len(pat) + 1) :
    /\ SubSeq(s, i, i + Len(pat) - 1) = pat
    /\ \A j \in 1..(i - 1) : SubSeq(s, j, j + Len(pat) - 1) # pat

Splice(s, i, n, by) == SubSeq(s, 1, i - 1) \o by \o SubSeq(s, i + n, Len(s))

replaceFirst(s, pat, by) ==
  IF includes(s, pat) THEN Splice(s, IndexOf(s, pat), Len(pat), by) ELSE s

\* String(s ?? "").trim() of part_001; part_000 writes String(s || "").trim(),
\* the same on strings and undefined.
norm(o) == IF IsSome(o) THEN trim(Get(o)) ELSE ""
lower(o) == toLowerCase(norm(o))

(* ------------------------------------------------------------------ *)
(* JavaScript numbers read from cells                                  *)
(* A parsed cell is the decimal n / 10^d, kept exact and canonical     *)
(* (d minimal); it stands for the IEEE double nearest to it. The       *)
(* comparisons and roundings below are against integers, which are     *)
(* exact in both readings. Exponent, hexadecimal and Infinity literals *)
(* are not numeric here: the cells of this model hold none.            *)
(* ------------------------------------------------------------------ *)
RECURSIVE Pow10(_)
Pow10(d) == IF d = 0 THEN 1 ELSE 10 * Pow10(d - 1)

RECURSIVE Pow2(_)
Pow2(k) == IF k = 0 THEN 1 ELSE 2 * Pow2(k - 1)

RECURSIVE MkNum(_, _)
MkNum(n, d) == IF d > 0 /\ n % 10 = 0 THEN MkNum(n \div 10, d - 1) ELSE [n |-> n, d |-> d]

NumOfInt(k) == [n |-> k, d |-> 0]
NumNeg(v) == [n |-> 0 - v.n, d |-> v.d]
NumGE(v, k) == v.n >= k * Pow10(v.d)
NumLE(v, k) == v.n <= k * Pow10(v.d)
NumIsZero(v) == v.n = 0

\* Math.round(v): floor(v + 0.5)
MathRound(v) == (2 * v.n + Pow10(v.d)) \div (2 * Pow10(v.d))

IsDigits(s) == s # "" /\ \A i \in 1..Len(s) : IsDigit(Ch(s, i))

RECURSIVE DigitsVal(_)
DigitsVal(s) ==
  IF s = "" THEN 0 ELSE 10 * DigitsVal(SubSeq(s, 1, Len(s) - 1)) + DigitVal(Ch(s, Len(s)))

\* The unsigned decimal literals of the Number(string) grammar:
\* "12", "12.", "12.5", ".5".
DecimalLiteral(ip, fp) ==
  IF /\ (ip = "" \/ IsDigits(ip))
     /\ (fp = "" \/ IsDigits(fp))
     /\ ~(ip = "" /\ fp = "")
  THEN Some(MkNum(DigitsVal(ip) * Pow10(Len(fp)) + DigitsVal(fp), Len(fp)))
  ELSE None

SplitAt(s, i) == DecimalLiteral(SubSeq(s, 1, i - 1), SubSeq(s, i + 1, Len(s)))

UnsignedToNumber(s) ==
  IF includes(s, ".") THEN SplitAt(s, IndexOf(s, "."))
  ELSE IF IsDigits(s) THEN Some(NumOfInt(DigitsVal(s))) ELSE None

\* Number(s), the unary plus of coerceNumber: white space is trimmed, the
\* empty string is 0, a string that is no literal is NaN (None).
Signed(neg, u) == IF neg /\ IsSome(u) THEN Some(NumNeg(Get(u))) ELSE u

TrimmedToNumber(s) ==
  IF s = "" THEN Some(NumOfInt(0))
  ELSE Signed(Ch(s, 1) = "-",
              UnsignedToNumber(IF Ch(s, 1) = "-" \/ Ch(s, 1) = "+" THEN Tail(s) ELSE s))

StringToNumber(str) == TrimmedToNumber(trim(str))

\* The end of the run of digits that starts at position i.
RECURSIVE DigitRunEnd(_, _)
DigitRunEnd(s, i) ==
  IF i + 1 <= Len(s) /\ IsDigit(Ch(s, i + 1)) THEN DigitRunEnd(s, i + 1) ELSE i

\* s.match(/-?\d+(\.\d+)?/): the leftmost match, each part greedy.
MatchStarts(s, i) ==
  \/ IsDigit(Ch(s, i))
  \/ Ch(s, i) = "-" /\ i + 1 <= Len(s) /\ IsDigit(Ch(s, i + 1))

\* the end of the match whose integer part ends at e1: the optional fraction
FractionEnd(s, e1) ==
  IF e1 + 2 <= Len(s) /\ Ch(s, e1 + 1) = "." /\ IsDigit(Ch(s, e1 + 2))
  THEN DigitRunEnd(s, e1 + 2) ELSE e1

MatchEnd(s, i) == FractionEnd(s, DigitRunEnd(s, IF Ch(s, i) = "-" THEN i + 1 ELSE i))

MatchAt(s, i) == Some(SubSeq(s, i, MatchEnd(s, i)))

RegexFirstNumber(s) ==
  IF \E i \in 1..Len(s) : MatchStarts(s, i)
  THEN MatchAt(s, CHOOSE i \in 1..Len(s) :
                    MatchStarts(s, i) /\ \A j \in 1..(i - 1) : ~MatchStarts(s, j))
  ELSE None

\* coerceNumber of data.js, results.js v1500 and results.js (continuous).
coerceNumberPlus(x) ==
  StringToNumber(trim(replaceFirst(IF IsSome(x) THEN Get(x) ELSE "", ",", ".")))

\* coerceNumber of results.js (part_001:618): the first embedded number.
MatchToNumber(m) == IF IsSome(m) THEN StringToNumber(Get(m)) ELSE None

coerceNumberRegex(x) ==
  MatchToNumber(RegexFirstNumber(replaceFirst(IF IsSome(x) THEN Get(x) ELSE "", ",", ".")))

(* ------------------------------------------------------------------ *)
(* IEEE-754 binary64 arithmetic of d3.mean (sum += value; sum / count)  *)
(* A natural number is a little-endian tuple of limbs in base 2^14 with *)
(* no leading zero limb (<<>> is 0). A positive double is m * 2^e with  *)
(* m of exactly 53 bits; zero is [m |-> <<>>, e |-> 0]. Only            *)
(* non-negative values occur (scores are clamped to [0, 2] first).      *)
(* Rounding is to nearest, ties to even.                                *)
(* ------------------------------------------------------------------ *)
LimbBase == 16384
LimbBits == 14
MantissaBits == 53

RECURSIVE BigNorm(_)
BigNorm(a) ==
  IF a # <<>> /\ a[Len(a)] = 0 THEN BigNorm(SubSeq(a, 1, Len(a) - 1)) ELSE a

RECURSIVE BigFromInt(_)
BigFromInt(n) ==
  IF n = 0 THEN <<>> ELSE <<n % LimbBase>> \o BigFromInt(n \div LimbBase)

RECURSIVE BigAddC(_, _, _)
BigAddC(a, b, c) ==
  IF a = <<>> /\ b = <<>> THEN (IF c = 0 THEN <<>> ELSE <<c>>)
  ELSE LET x == IF a = <<>> THEN 0 ELSE a[1]
           y == IF b = <<>> THEN 0 ELSE b[1]
           t == x + y + c
       IN <<t % LimbBase>> \o
          BigAddC(IF a = <<>> THEN <<>> ELSE Tail(a),
                  IF b = <<>> THEN <<>> ELSE Tail(b), t \div LimbBase)

BigAdd(a, b) == BigAddC(a, b, 0)

\* a * k for 0 < k <= 2^14
RECURSIVE BigMulC(_, _, _)
BigMulC(a, k, c) ==
  IF a = <<>> THEN (IF c = 0 THEN <<>> ELSE <<c>>)
  ELSE LET t == a[1] * k + c
       IN <<t % LimbBase>> \o BigMulC(Tail(a), k, t \div LimbBase)

\* a divided by k, 0 < k < 2^14: [q |-> quotient, r |-> remainder], from the top limb down.
RECURSIVE BigDivR(_, _, _)
BigDivR(a, k, r) ==
  IF a = <<>> THEN [q |-> <<>>, r |-> r]
  ELSE LET t    == r * LimbBase + a[Len(a)]
           rest == BigDivR(SubSeq(a, 1, Len(a) - 1), k, t % k)
       IN [q |-> rest.q \o <<t \div k>>, r |-> rest.r]

NormQuotient(x) == [q |-> BigNorm(x.q), r |-> x.r]

BigDivSmall(a, k) == NormQuotient(BigDivR(a, k, 0))

RECURSIVE Zeros(_)
Zeros(n) == IF n = 0 THEN <<>> ELSE <<0>> \o Zeros(n - 1)

\* a * 2^k
BigShl(a, k) ==
  IF a = <<>> THEN <<>>
  ELSE Zeros(k \div LimbBits) \o BigMulC(a, Pow2(k % LimbBits), 0)

\* floor(a / 2^k) and whether a bit was dropped
ShiftedOut(x, low) ==
  [q |-> x.q, dropped |-> x.r # 0 \/ \E i \in 1..Len(low) : low[i] # 0]

BigShrLimbs(a, w, bits) ==
  ShiftedOut(BigDivSmall(SubSeq(a, w + 1, Len(a)), Pow2(bits)),
             SubSeq(a, 1, IF w < Len(a) THEN w ELSE Len(a)))

BigShr(a, k) == BigShrLimbs(a, k \div LimbBits, k % LimbBits)

RECURSIVE IntBitLen(_)
IntBitLen(n) == IF n = 0 THEN 0 ELSE 1 + IntBitLen(n \div 2)

BigBitLen(a) == IF a = <<>> THEN 0 ELSE LimbBits * (Len(a) - 1) + IntBitLen(a[Len(a)])

BigIsOdd(a) == a # <<>> /\ a[1] % 2 = 1

DblZero == [m |-> <<>>, e |-> 0]

\* The double nearest to (k + f) * 2^e, where 0 <= f < 1 and sticky says f > 0
\* (sticky is only given with k of more than 53 bits).
\* a rounded mantissa that carried into a 54th bit is halved
Renormalize(m, e) ==
  IF BigBitLen(m) > MantissaBits
  THEN [m |-> BigShr(m, 1).q, e |-> e + 1]
  ELSE [m |-> m, e |-> e]

\* x is the value cut one bit below the mantissa, q the mantissa itself:
\* up when the cut bit is set and more follows, or on a tie when q is odd
RoundHalfEven(x, q, e, sticky) ==
  Renormalize(IF BigIsOdd(x.q) /\ (x.dropped \/ sticky \/ BigIsOdd(q))
              THEN BigAdd(q, <<1>>) ELSE q, e)

RoundCut(x, e, sticky) == RoundHalfEven(x, BigShr(x.q, 1).q, e, sticky)

DblRoundBits(k, e, sticky, L) ==
  IF k = <<>> THEN DblZero
  ELSE IF L <= MantissaBits
       THEN [m |-> BigShl(k, MantissaBits - L), e |-> e - (MantissaBits - L)]
  ELSE RoundCut(BigShr(k, L - MantissaBits - 1), e + (L - MantissaBits), sticky)

DblRound(k, e, sticky) == DblRoundBits(k, e, sticky, BigBitLen(k))

DblFromInt(n) == DblRound(BigFromInt(n), 0, FALSE)

\* hi.e >= lo.e: the exact sum in units of 2^lo.e, then one rounding
AddAligned(hi, lo) == DblRound(BigAdd(BigShl(hi.m, hi.e - lo.e), lo.m), lo.e, FALSE)

DblAdd(a, b) ==
  IF a.m = <<>> THEN b
  ELSE IF b.m = <<>> THEN a
  ELSE AddAligned(IF a.e >= b.e THEN a ELSE b, IF a.e >= b.e THEN b ELSE a)

RoundQuotient(x, e) == DblRound(x.q, e, x.r # 0)

\* a / n for an integer 0 < n < 2^14 (exactly representable, so this is the
\* correctly rounded quotient of the two doubles)
DblDivInt(a, n) ==
  IF a.m = <<>> THEN DblZero
  ELSE RoundQuotient(BigDivSmall(BigShl(a.m, 2 * LimbBits), n), a.e - 2 * LimbBits)

\* The double a non-negative parsed cell n / 10^d stands for: the nearest one.
DblOfNum(v) == DblDivInt(DblFromInt(v.n), Pow10(v.d))

(* ------------------------------------------------------------------ *)
(* Configuration tables                                                *)
(* ------------------------------------------------------------------ *)
CSV_PATH == "data/BoC_v3_EXTENDED_scored.csv"

GENRES == <<"BIO", "DEV", "PHI", "POE", "RHE", "THE">>
GenreSet == {GENRES[i] : i \in 1..Len(GENRES)}

Pages == {"data", "v1500", "results", "continuous"}

SeqIncludes(seq, x) == \E i \in 1..Len(seq) : seq[i] = x

\* Array.prototype.find over GENRES: the first code the predicate accepts.
FindGenre(P(_)) ==
  IF \E i \in 1..Len(GENRES) : P(GENRES[i])
  THEN Some(GENRES[CHOOSE i \in 1..Len(GENRES) :
                      P(GENRES[i]) /\ \A j \in 1..(i - 1) : ~P(GENRES[j])])
  ELSE None

\* Members every object literal inherits from Object.prototype: what a
\* property read returns for a key the literal does not own. The values
\* are functions (and the prototype object itself), written here as the
\* strings they print as; all of them are truthy and none is a genre code.
ObjectPrototypeMember(k) ==
  IF k = "__proto__" THEN Some("[object Object]")
  ELSE IF k \in {"constructor", "toString", "valueOf", "hasOwnProperty",
                 "isPrototypeOf", "propertyIsEnumerable", "toLocaleString",
                 "__defineGetter__", "__defineSetter__",
                 "__lookupGetter__", "__lookupSetter__"}
  THEN Some("function " \o (IF k = "constructor" THEN "Object" ELSE k))
  ELSE None

\* GENRE_MAP[k]: the letter codes, else whatever the prototype chain holds.
GENRE_MAP(k) ==
  CASE k = "b" -> Some("BIO")
    [] k = "d" -> Some("DEV")
    [] k = "n" -> Some("PHI")
    [] k = "p" -> Some("POE")
    [] k = "r" -> Some("RHE")
    [] k = "k" -> Some("THE")
    [] OTHER   -> ObjectPrototypeMember(k)

\* a || b on values that are null or strings: the empty string is falsy.
OrElse(a, b) == IF IsSome(a) /\ Get(a) # "" THEN a ELSE b

(* ------------------------------------------------------------------ *)
(* Column Resolver                                                     *)
(* ------------------------------------------------------------------ *)
MinOf(S) == CHOOSE x \in S : \A y \in S : x <= y

\* cols = columns.map(c => ({ raw: c, low: lower(c) })): the low halves
LowColumns(columns) == [i \in 1..Len(columns) |-> lower(Some(columns[i]))]

\* cols.find(...): the first header among the hits, else what comes next
FirstHit(columns, hits, next) ==
  IF hits # {} THEN Some(columns[MinOf(hits)]) ELSE next

\* c.low === cLow and c.low.includes(inc), as the positions they hold at
EqualTo(lows, cLow) == {i \in 1..Len(lows) : lows[i] = cLow}
Containing(lows, inc) == {i \in 1..Len(lows) : includes(lows[i], inc)}

\* the first header, in header order, that equals any of the candidates
FindExactByHeader(columns, lows, candidates) ==
  FirstHit(columns,
           {i \in 1..Len(lows) :
              \E k \in 1..Len(candidates) : lows[i] = toLowerCase(candidates[k])},
           None)

RECURSIVE FindExact(_, _, _)
FindExact(columns, lows, candidates) ==
  IF candidates = <<>> THEN None
  ELSE FirstHit(columns, EqualTo(lows, toLowerCase(Head(candidates))),
                FindExact(columns, lows, Tail(candidates)))

findColumn(columns, candidates) == FindExact(columns, LowColumns(columns), candidates)

RECURSIVE FindFuzzy(_, _, _)
FindFuzzy(columns, lows, includesAny) ==
  IF includesAny = <<>> THEN None
  ELSE FirstHit(columns, Containing(lows, toLowerCase(Head(includesAny))),
                FindFuzzy(columns, lows, Tail(includesAny)))

findColumnFuzzy(columns, includesAny) == FindFuzzy(columns, LowColumns(columns), includesAny)

\* The candidate lists of each page: exact names, then substrings.
\* The candidate names of each role: the exact names tried first, then the
\* substrings tried by findColumnFuzzy.
DataCandidates ==
  [genre |-> [exact |-> <<"genre", "Genre", "GenreLabel", "genrelabel", "GenreCode", "genre_code", "genre_abbr">>,
              fuzzy |-> <<"genre">>],
   era   |-> [exact |-> <<"century", "Century", "century_ah", "Century_AH", "ah_century", "centuryAH", "century_hijri">>,
              fuzzy |-> <<"century">>],
   year  |-> [exact |-> <<"year", "Year", "date", "Date", "year_ah", "ah_year", "hijri_year">>,
              fuzzy |-> <<"year", "date", "hijri", "ah">>]]

V1500Candidates ==
  [genre  |-> [exact |-> <<"GenreCode", "genrecode", "genre_code", "genre">>,
               fuzzy |-> <<"genre">>],
   era    |-> [exact |-> <<"date", "Date", "century", "Century", "century_ah">>,
               fuzzy |-> <<"date", "century">>],
   love   |-> [exact |-> <<"BoC_final_0_2", "boc_final_0_2">>,
               fuzzy |-> <<"boc_final_0_2", "boc_final">>],
   title  |-> [exact |-> <<"title_lat", "title", "Title">>,
               fuzzy |-> <<"title">>],
   author |-> [exact |-> <<"author_lat", "author", "Author">>,
               fuzzy |-> <<"author">>],
   uri    |-> [exact |-> <<"version_uri", "uri", "URI", "id", "ID">>,
               fuzzy |-> <<"uri", "id">>]]

\* loveCol has two exact lists, tried one after the other (part_001:695-698)
ResultsCandidates ==
  [genreCode  |-> [exact |-> <<"GenreCode">>, fuzzy |-> <<"genrecode">>],
   genreLabel |-> [exact |-> <<"GenreLabel">>, fuzzy |-> <<"genrelabel">>],
   era    |-> [exact |-> <<"date", "Date">>,
               fuzzy |-> <<"date">>],
   love   |-> [exact  |-> <<"BoC_final_0_2">>,
               exact2 |-> <<"boc_final_0_2", "loveindex", "LoveIndex", "love_index">>,
               fuzzy  |-> <<"boc_final", "love", "index">>],
   title  |-> [exact |-> <<"title_lat", "title", "Title", "book_title", "work_title">>,
               fuzzy |-> <<"title">>],
   author |-> [exact |-> <<"author_lat", "author", "Author", "author_name">>,
               fuzzy |-> <<"author">>],
   uri    |-> [exact |-> <<"version_uri", "uri", "URI", "work_id", "id", "ID">>,
               fuzzy |-> <<"version_uri", "uri", "id">>]]

\* findColumn(columns, [...]) || findColumnFuzzy(columns, [...])
Lookup(columns, c) == OrElse(findColumn(columns, c.exact), findColumnFuzzy(columns, c.fuzzy))

\* The ColumnMap of a page: role -> resolved header, None when undetected.
\* "era" is centuryCol on the data page and dateCol on the results pages;
\* "year" is the data page's year-like fallback column.
NoColumnMap ==
  [genre |-> None, era |-> None, year |-> None, love |-> None,
   title |-> None, author |-> None, uri |-> None]

DetectData(columns) ==
  [NoColumnMap EXCEPT
     !.genre = Lookup(columns, DataCandidates.genre),
     !.era   = Lookup(columns, DataCandidates.era),
     !.year  = Lookup(columns, DataCandidates.year)]

DetectV1500(columns) ==
  [NoColumnMap EXCEPT
     !.genre  = Lookup(columns, V1500Candidates.genre),
     !.era    = Lookup(columns, V1500Candidates.era),
     !.love   = Lookup(columns, V1500Candidates.love),
     !.title  = Lookup(columns, V1500Candidates.title),
     !.author = Lookup(columns, V1500Candidates.author),
     !.uri    = Lookup(columns, V1500Candidates.uri)]

ResultsGenreCodeCol(columns) == Lookup(columns, ResultsCandidates.genreCode)

ResultsGenreLabelCol(columns) == Lookup(columns, ResultsCandidates.genreLabel)

DetectResults(columns) ==
  [NoColumnMap EXCEPT
     !.genre  = OrElse(ResultsGenreCodeCol(columns), ResultsGenreLabelCol(columns)),
     !.era    = Lookup(columns, ResultsCandidates.era),
     !.love   = OrElse(findColumn(columns, ResultsCandidates.love.exact),
                       OrElse(findColumn(columns, ResultsCandidates.love.exact2),
                              findColumnFuzzy(columns, ResultsCandidates.love.fuzzy))),
     !.title  = Lookup(columns, ResultsCandidates.title),
     !.author = Lookup(columns, ResultsCandidates.author),
     !.uri    = Lookup(columns, ResultsCandidates.uri)]

\* results.js (continuous) repeats the lists of v1500 (part_001:1285-1307).
DetectColumns(pg, columns) ==
  CASE pg = "data"    -> DetectData(columns)
    [] pg = "results" -> DetectResults(columns)
    [] OTHER          -> DetectV1500(columns)

\* The roles a page cannot do without (part_000:132, part_001:149, 714, 1309).
RequiredRoles(pg) == IF pg = "data" THEN {"genre"} ELSE {"genre", "love", "era"}

Truthy(o) == IF IsSome(o) /\ Get(o) # "" THEN TRUE ELSE FALSE

MissingRoles(pg, cm) == {role \in RequiredRoles(pg) : ~Truthy(cm[role])}

(* ------------------------------------------------------------------ *)
(* Rows of the loaded CSV                                              *)
(* d3.csv turns each line into an object keyed by the header names; a  *)
(* row is kept here as its tuple of cells, read through the header.    *)
(* A name that heads several columns reads the last of them; a name    *)
(* that heads none reads undefined.                                    *)
(* ------------------------------------------------------------------ *)
MaxOf(S) == CHOOSE x \in S : \A y \in S : x >= y

LastHit(cells, hits) == IF hits = {} THEN None ELSE Some(cells[MaxOf(hits)])

CellByName(columns, cells, name) ==
  LastHit(cells, {j \in 1..Len(columns) : columns[j] = name})

\* r[col] for a resolved column (or undefined when the role is unresolved)
Cell(columns, cells, col) ==
  IF IsSome(col) THEN CellByName(columns, cells, Get(col)) ELSE None

(* ------------------------------------------------------------------ *)
(* Value Normalizer: genre                                             *)
(* ------------------------------------------------------------------ *)
\* normalizeGenre of results.js v1500 (part_001:75) and, word for word,
\* of results.js continuous (part_001:1230).
\* a || b on the values a property read can give
Either(a, b) == IF Truthy(a) THEN a ELSE b

NormalizeUpLow(up, k) ==
  IF SeqIncludes(GENRES, up) THEN Some(up)
  ELSE Either(GENRE_MAP(k), FindGenre(LAMBDA g : startsWith(up, g)))

NormalizeTrimmed(s) == NormalizeUpLow(toUpperCase(s), toLowerCase(s))

normalizeGenre(raw) == IF ~Truthy(raw) THEN None ELSE NormalizeTrimmed(norm(raw))

\* normalizeGenre(r[genreCol]) || normalizeGenre(r["GenreLabel"])
GenreV1500(columns, cm, cells) ==
  OrElse(normalizeGenre(Cell(columns, cells, cm.genre)),
         normalizeGenre(CellByName(columns, cells, "GenreLabel")))

\* the file-level normalizeGenre of results.js (part_001:570)
GlobalUpLow(up, k) == IF SeqIncludes(GENRES, up) THEN Some(up) ELSE GENRE_MAP(k)

GlobalTrimmed(s) == GlobalUpLow(toUpperCase(s), toLowerCase(s))

normalizeGenreGlobal(raw) == IF ~Truthy(raw) THEN None ELSE GlobalTrimmed(trim(Get(raw)))

\* inferGenre of results.js (part_001:645)
InferUpper(u, mapped) ==
  IF SeqIncludes(GENRES, u) THEN Some(u)
  ELSE Either(mapped, FindGenre(LAMBDA g : includes(u, g)))

InferTrimmed(v) ==
  IF v = "" THEN None ELSE InferUpper(toUpperCase(v), normalizeGenreGlobal(Some(v)))

inferGenre(columns, cm, cells) == InferTrimmed(norm(Cell(columns, cells, cm.genre)))

\* inferGenreValue of data.js (part_000:60)
InferValueUpper(upper) ==
  OrElse(FindGenre(LAMBDA g : \/ upper = g
                              \/ startsWith(upper, g)
                              \/ includes(upper, " " \o g)
                              \/ includes(upper, g \o " ")),
         IF SeqIncludes(GENRES, upper) THEN Some(upper) ELSE None)

InferValueTrimmed(v) == IF v = "" THEN None ELSE InferValueUpper(toUpperCase(v))

inferGenreValue(columns, cm, cells) ==
  InferValueTrimmed(norm(Cell(columns, cells, cm.genre)))

ResolveGenre(pg, columns, cm, cells) ==
  CASE pg = "data"    -> inferGenreValue(columns, cm, cells)
    [] pg = "results" -> inferGenre(columns, cm, cells)
    [] OTHER          -> GenreV1500(columns, cm, cells)

(* ------------------------------------------------------------------ *)
(* Value Normalizer: era                                               *)
(* ------------------------------------------------------------------ *)
\* Math.floor((y - 1) / 100) + 1
toCenturyFromYear(y) == ((y.n - Pow10(y.d)) \div (100 * Pow10(y.d))) + 1

\* inferCenturyFromValue of results.js (part_001:631), on a coerced number
\* (c >= 1 && c <= 30) ? c : null
CenturyInRange(c) == IF c >= 1 /\ c <= 30 THEN Some(c) ELSE None

\* the century of a number n: itself, rounded, when it lies in lo..hi, and
\* the century of the year when it is a year
CenturyOfNumber(n, lo, hi) ==
  IF NumGE(n, lo) /\ NumLE(n, hi) THEN Some(MathRound(n))
  ELSE IF NumGE(n, 50) /\ NumLE(n, 2000) THEN CenturyInRange(toCenturyFromYear(n))
  ELSE None

inferCenturyFromValue(v) == IF ~IsSome(v) THEN None ELSE CenturyOfNumber(Get(v), 1, 30)

\* inferCenturyFromDate of results.js v1500 (part_001:91) and continuous
\* (part_001:1250): the same rule after coerceNumber
inferCenturyFromDate(x) == inferCenturyFromValue(coerceNumberPlus(x))

\* inferCenturyValue of data.js (part_000:76)
\* !v: NaN and 0 are no value
CenturyOfCoerced(v) ==
  IF ~IsSome(v) \/ NumIsZero(Get(v)) THEN None ELSE CenturyOfNumber(Get(v), 2, 20)

inferCenturyValue(columns, cm, cells) ==
  IF ~Truthy(cm.era) THEN None
  ELSE CenturyOfCoerced(coerceNumberPlus(Cell(columns, cells, cm.era)))

\* the century of a data.js row, with the year-like fallback (part_000:144-153)
\* if (cy) c = cy
NonZeroOr(cy, c) == IF cy # 0 THEN Some(cy) ELSE c

\* if (!c && yearCol) { const y = coerceNumber(r[yearCol]); if (y) c = toCenturyFromYear(y) }
YearFallback(c, hasYear, y) ==
  IF IsSome(c) /\ Get(c) # 0 THEN c
  ELSE IF hasYear /\ IsSome(y) /\ ~NumIsZero(Get(y)) THEN NonZeroOr(toCenturyFromYear(Get(y)), c)
  ELSE c

CenturyData(columns, cm, cells) ==
  YearFallback(inferCenturyValue(columns, cm, cells), Truthy(cm.year),
               coerceNumberPlus(Cell(columns, cells, cm.year)))

ResolveCentury(pg, columns, cm, cells) ==
  CASE pg = "data"    -> CenturyData(columns, cm, cells)
    [] pg = "results" -> inferCenturyFromValue(coerceNumberRegex(Cell(columns, cells, cm.era)))
    [] OTHER          -> inferCenturyFromDate(Cell(columns, cells, cm.era))

\* The century window the row loop enforces: data.js 2..15 (part_000:156),
\* results.js 1..15 (part_001:735); v1500 and continuous test nothing.
MIN_C == 2
MAX_C == 15

\* a row loop that keeps every century
NoWindow(pg, c) == TRUE

InRowWindow(pg, c) ==
  CASE pg = "data"    -> ~(c < MIN_C \/ c > MAX_C)
    [] pg = "results" -> ~(c < 1 \/ c > MAX_C)
    [] OTHER          -> TRUE

(* ------------------------------------------------------------------ *)
(* Value Normalizer: score                                             *)
(* ------------------------------------------------------------------ *)
coerceNumber(pg, x) == IF pg = "results" THEN coerceNumberRegex(x) ELSE coerceNumberPlus(x)

\* Math.max(0, Math.min(2, love))
AtLeastZero(m) == IF NumGE(m, 0) THEN m ELSE NumOfInt(0)

\* Math.min(2, love) alone: the clamp without its lower bound
ClampAboveOnly(love) == IF NumLE(love, 2) THEN love ELSE NumOfInt(2)

loveClamped(love) == AtLeastZero(IF NumLE(love, 2) THEN love ELSE NumOfInt(2))

(* ------------------------------------------------------------------ *)
(* Deterministic Position Synthesizer                                  *)
(* h is the 32-bit FNV-1a state, kept as two 16-bit halves: h ^= u      *)
(* touches the low half only (u < 2^16) and Math.imul(h, 16777619) is   *)
(* h * (2^24 + 403) mod 2^32.                                           *)
(* ------------------------------------------------------------------ *)
Half == 65536
FnvOffsetHi == 33052
FnvOffsetLo == 40389
FnvPrimeLow == 403

AsciiFrom35 == "#$%&'()*+,-./0123456789:;<=>?@ABCDEFGHIJKLMNOPQRSTUVWXYZ["
AsciiFrom93 == "]^_"
AsciiFrom97 == "abcdefghijklmnopqrstuvwxyz{|}~"

\* s.charCodeAt(i), for the printable ASCII characters the cells are made of
\* (the double quote, the backslash and the backquote occur in none)
charCode(c) ==
  CASE c = " " -> 32
    [] c = "!" -> 33
    [] PosIn(c, AsciiFrom35) > 0 -> 34 + PosIn(c, AsciiFrom35)
    [] PosIn(c, AsciiFrom93) > 0 -> 92 + PosIn(c, AsciiFrom93)
    [] PosIn(c, AsciiFrom97) > 0 -> 96 + PosIn(c, AsciiFrom97)

RECURSIVE BitXor(_, _)
BitXor(a, b) ==
  IF a = 0 THEN b
  ELSE IF b = 0 THEN a
  ELSE (((a % 2) + (b % 2)) % 2) + 2 * BitXor(a \div 2, b \div 2)

FnvStep(h, u) ==
  LET lo == BitXor(h.lo, u)
      p  == lo * FnvPrimeLow
  IN [hi |-> (h.hi * FnvPrimeLow + (p \div Half) + (lo % 256) * 256) % Half,
      lo |-> p % Half]

RECURSIVE FnvHash(_, _)
FnvHash(s, h) ==
  IF s = "" THEN h
  ELSE LET next == FnvStep(h, charCode(Ch(s, 1)))
       IN \* the test is always true: it has the step evaluated before the next one
          IF next.lo >= 0 THEN FnvHash(Tail(s), next) ELSE h

\* the offset of the signed 32-bit h, without the h >>> 0
SignedOffset(h) ==
  (h.hi * 100 + (h.lo * 100) \div Half) \div Half - (IF 2 * h.hi >= Half THEN 100 ELSE 0)

SignedJitter(str) == SignedOffset(FnvHash(str, [hi |-> FnvOffsetHi, lo |-> FnvOffsetLo]))

\* Math.floor(hashToUnit(str) * 100), hashToUnit being (h >>> 0) / 2^32
\* a jitter whose hash starts from 0 in place of the FNV offset basis
JitterOfZeroBasis(str) ==
  LET h == FnvHash(str, [hi |-> 0, lo |-> 0])
  IN (h.hi * 100 + (h.lo * 100) \div Half) \div Half

hashJitter(str) ==
  LET h == FnvHash(str, [hi |-> FnvOffsetHi, lo |-> FnvOffsetLo])
  IN (h.hi * 100 + (h.lo * 100) \div Half) \div Half

\* title || uri || author: the title tried before the identifier
SeedTitleFirst(uri, title, author) ==
  IF title # "" THEN title ELSE IF uri # "" THEN uri ELSE author

\* uri || title || author
Seed(uri, title, author) == IF uri # "" THEN uri ELSE IF title # "" THEN title ELSE author

\* the pseudo-year with baseYear = century * 100, one century too late
YearOfNextCentury(century, seed) == century * 100 + hashJitter(seed) + 1

yearApprox(century, seed) == (century - 1) * 100 + hashJitter(seed) + 1

(* ------------------------------------------------------------------ *)
(* Record Builder: one row of the loop, None when the row is skipped   *)
(* ------------------------------------------------------------------ *)
\* titleCol ? norm(r[titleCol]) : ""
TextField(columns, cells, col) ==
  IF Truthy(col) THEN norm(Cell(columns, cells, col)) ELSE ""

\* results.js v1500 (part_001:161-191) and continuous (part_001:1321-1351)
RecordV1500(genre, century, love, title, author, uri) ==
  IF ~Truthy(genre) THEN None
  ELSE IF ~IsSome(century) \/ Get(century) = 0 THEN None
  ELSE IF ~IsSome(love) THEN None
  ELSE Some([genre   |-> Get(genre),
             century |-> Get(century),
             year    |-> yearApprox(Get(century), Seed(uri, title, author)),
             love    |-> loveClamped(Get(love)),
             title   |-> title,
             author  |-> author,
             uri     |-> uri])

BuildRecordV1500(columns, cm, cells) ==
  RecordV1500(GenreV1500(columns, cm, cells),
              inferCenturyFromDate(Cell(columns, cells, cm.era)),
              coerceNumberPlus(Cell(columns, cells, cm.love)),
              TextField(columns, cells, cm.title),
              TextField(columns, cells, cm.author),
              TextField(columns, cells, cm.uri))

\* results.js (part_001:726-746): no pseudo-year in this version
RecordResults(genre, century, love, title, author, uri) ==
  IF ~Truthy(genre) THEN None
  ELSE IF ~IsSome(century) \/ Get(century) = 0 THEN None
  ELSE IF ~InRowWindow("results", Get(century)) THEN None
  ELSE IF ~IsSome(love) THEN None
  ELSE Some([genre   |-> Get(genre),
             century |-> Get(century),
             love    |-> loveClamped(Get(love)),
             title   |-> title,
             author  |-> author,
             uri     |-> uri])

BuildRecordResults(columns, cm, cells) ==
  RecordResults(inferGenre(columns, cm, cells),
                inferCenturyFromValue(coerceNumberRegex(Cell(columns, cells, cm.era))),
                coerceNumberRegex(Cell(columns, cells, cm.love)),
                TextField(columns, cells, cm.title),
                TextField(columns, cells, cm.author),
                TextField(columns, cells, cm.uri))

\* data.js (part_000:140-159)
RecordData(g, c) ==
  IF ~Truthy(g) THEN None
  ELSE IF ~IsSome(c) \/ Get(c) = 0 THEN None
  ELSE IF ~InRowWindow("data", Get(c)) THEN None
  ELSE Some([genre |-> Get(g), century |-> Get(c)])

BuildRecordData(columns, cm, cells) ==
  RecordData(inferGenreValue(columns, cm, cells), CenturyData(columns, cm, cells))

BuildRecord(pg, columns, cm, cells) ==
  CASE pg = "data"    -> BuildRecordData(columns, cm, cells)
    [] pg = "results" -> BuildRecordResults(columns, cm, cells)
    [] OTHER          -> BuildRecordV1500(columns, cm, cells)

\* rows.length < 10 (data.js), rows.length < 20 (the results pages)
MinRowsData == 10
MinRowsResults == 20
\* thresholds one lower than the code's
OneLess(pg) == IF pg = "data" THEN MinRowsData - 1 ELSE MinRowsResults - 1

MinRows(pg) == IF pg = "data" THEN MinRowsData ELSE MinRowsResults

(* ------------------------------------------------------------------ *)
(* Aggregator                                                          *)
(* ------------------------------------------------------------------ *)
\* d3.mean over numbers: sum += value from left to right, then sum / count
RECURSIVE DblSum(_, _, _)
DblSum(vals, k, acc) ==
  IF k > Len(vals) THEN acc
  ELSE DblSum(vals, k + 1, DblAdd(acc, DblOfNum(vals[k])))

d3mean(vals) == DblDivInt(DblSum(vals, 1, DblZero), Len(vals))

\* rows.filter(...).map((r) => r.love); genre None is the pooled filter
Matches(r, genre, c) == (IsSome(genre) => r.genre = Get(genre)) /\ r.century = c

RECURSIVE LoveVals(_, _, _)
LoveVals(rs, genre, c) ==
  IF rs = <<>> THEN <<>>
  ELSE (IF Matches(Head(rs), genre, c) THEN <<Head(rs).love>> ELSE <<>>)
       \o LoveVals(Tail(rs), genre, c)

\* centuries.map(c => {century, mean, n}).filter(d => d.mean != null)
RECURSIVE Series(_, _, _, _)
Bucket(c, vals) ==
  IF vals # <<>> THEN <<[century |-> c, mean |-> d3mean(vals), n |-> Len(vals)]>> ELSE <<>>

Series(rs, genre, c, maxC) ==
  IF c > maxC THEN <<>>
  ELSE Bucket(c, LoveVals(rs, genre, c)) \o Series(rs, genre, c + 1, maxC)

\* d3.range(MIN_C, MAX_C + 1) on v1500 and continuous, d3.range(1, 16) on results
FirstCentury(pg) == IF pg = "results" THEN 1 ELSE MIN_C

Pooled(pg, rs) == Series(rs, None, FirstCentury(pg), MAX_C)

ByGenre(pg, rs) ==
  [k \in 1..Len(GENRES) |->
     [genre |-> GENRES[k], values |-> Series(rs, Some(GENRES[k]), FirstCentury(pg), MAX_C)]]

\* data.js: countsByGenre (part_000:174) and dataByCentury (part_000:184-196)
CountIf(rs, P(_)) == Cardinality({k \in 1..Len(rs) : P(rs[k])})

CountsByGenre(rs) == [g \in GenreSet |-> CountIf(rs, LAMBDA r : r.genre = g)]

DataByCentury(rs) ==
  [k \in 1..(MAX_C - MIN_C + 1) |->
     [century |-> MIN_C + k - 1,
      counts  |-> [g \in GenreSet |->
                     CountIf(rs, LAMBDA r : r.genre = g /\ r.century = MIN_C + k - 1)]]]

(* ------------------------------------------------------------------ *)
(* The CSV files a load can deliver                                    *)
(* Eight columns, in this order: genre code, genre label, era, a       *)
(* second era column, score, title, author, identifier. A file is one  *)
(* probe row followed by rows of a repeating body of clean rows: each  *)
(* probe before the full body, two of them before the shorter bodies   *)
(* around the thresholds, all under the standard header; and the full  *)
(* body under each of the other headers.                               *)
(* ------------------------------------------------------------------ *)
MaxFill == 21

\* the fill sizes around the two thresholds
Fills ==
  (0..1) \cup ((MinRowsData - 2)..MinRowsData) \cup ((MinRowsResults - 2)..MaxFill)

StdColumns ==
  <<"GenreCode", "GenreLabel", "date", "century", "BoC_final_0_2", "title_lat", "author_lat", "version_uri">>

AltColumns ==
  << <<"genre", "Genre_Label", "Date", "Century_AH", "boc_final", "Title", "Author", "ID">>,
     <<"my_genrecode", "GenreLabel", "date", "century", "BoC_final_0_2", "title_lat", "author_lat", "version_uri">>,
     <<"subgenre_x", "genre", "period", "year", "love_index", "name", "writer", "key">>,
     <<"GenreCode", "GenreLabel", "date", "century", "score", "title", "author", "uri">>,
     <<" GENRECODE ", "genrelabel", "DATE", "century", "BOC_FINAL_0_2", "title", "author", "id">>,
     <<"genre", "GenreCode", "Century", "date", "boc_final_0_2", "Title", "title_lat", "uri">>,
     <<"kind", "label", "when", "era", "value", "name", "writer", "key">>,
     <<"genre_code", "x_genrelabel", "pubdate", "hijri", "my_boc_final_0_2", "subtitle", "coauthor", "uuid">>,
     <<"genre", "label", "when", "era", "value", "name", "writer", "key">>,
     <<"GenreCode", "GenreLabel", "date", "century", "BoC_final_0_2", "name", "writer", "key">> >>

BodyRows ==
  << <<"b", "BIO - Biography", "3", "3", "0.1", "Tabaqat", "Ibn Sad", "w1">>,
     <<"b", "BIO - Biography", "3", "3", "0.2", "Siyar", "Dhahabi", "w2">>,
     <<"b", "BIO - Biography", "3", "3", "0.3", "Wafayat", "Ibn Khallikan", "w3">>,
     <<"d", "DEV - Devotional", "3", "3", "2.0", "Ihya", "Ghazali", "w4">>,
     <<"p", "POE - Poetic", "650", "7", "1,5", "Diwan", "Ibn al-Farid", "w5">>,
     <<"k", "THE - Theology", "15", "15", "0.5", "Risala", "Abduh", "w6">> >>

ProbeRows ==
  << <<"POE", "POE - Poetic", "7", "7", "1.2", "Hamasa", "Abu Tammam", "w7">>,
     <<"constructor", "", "3", "3", "1.0", "Kitab", "Anon", "w8">>,
     <<"__proto__", "x", "3", "3", "1.0", "", "", "">>,
     <<"toString", "toString", "3", "3", "1", "Kitab", "", "">>,
     <<"p", "POE", "20", "20", "1.0", "Late", "Anon", "w9">>,
     <<"b", "BIO", "1", "1", "0.7", "Sira", "Ibn Ishaq", "w10">>,
     <<"d", "DEV", "5", "5", "-5", "Qut", "Makki", "w11">>,
     <<"d", "DEV", "5", "5", "3.7", "Qut", "Makki", "w12">>,
     <<"r", "RHE", "6", "6", "", "Adab", "Jahiz", "w13">>,
     <<"r", "RHE", "6", "6", "abc", "Adab", "Jahiz", "w14">>,
     <<"n", "PHI", "400 AH", "400 AH", "1,5", "Shifa", "Ibn Sina", "w15">>,
     <<"n", "PHI", "40", "40", "1", "Najat", "Ibn Sina", "w16">>,
     <<"XPOE", "XPOE", "9", "9", "0.25", "Mix", "Anon", "w17">>,
     <<"X POE", "A POEM", "9", "9", "0.25", "Mix", "Anon", "w18">>,
     <<"", "RHE - Rhetoric", "10", "10", "2", "Bayan", "Jahiz", "w19">>,
     <<"  dev  ", " dev ", "11", "11", " 0.5 ", " Hikam ", "", " w20 ">>,
     <<"k", "THE", "350", "350", "0.9", "", "", "">>,
     <<"k", "THE", "15.5", "7.4", "1", "", "Ashari", "">>,
     <<"THEOLOGY", "theology", "0", "2000", "0.3", "Ibana", "", "">>,
     <<"B", "BIO", "", "650", "1.1", "Muruj", "Masudi", "w21">>,
     <<"p", "POE - Poetic", "7", "", "1.0", "Qasida", "Anon", "w22">> >>

RECURSIVE FillRows(_)
FillRows(n) == IF n = 0 THEN <<>> ELSE FillRows(n - 1) \o <<BodyRows[((n - 1) % Len(BodyRows)) + 1]>>

\* a probe every page keeps and one every page drops
ThresholdProbes == {1, 4}

Datasets ==
  {[columns |-> StdColumns, rows |-> <<ProbeRows[s]>> \o FillRows(MaxFill)] :
      s \in 1..Len(ProbeRows)}
  \cup
  {[columns |-> StdColumns, rows |-> <<ProbeRows[s]>> \o FillRows(n)] :
      s \in ThresholdProbes, n \in Fills}
  \cup
  {[columns |-> AltColumns[h], rows |-> <<ProbeRows[1]>> \o FillRows(MaxFill)] :
      h \in 1..Len(AltColumns)}

(* ------------------------------------------------------------------ *)
(* One page load                                                       *)
(* ------------------------------------------------------------------ *)
VARIABLES
  page,          \* which script runs
  pc,            \* where its DOMContentLoaded handler is
  columns,       \* raw.columns, None before the load and when the loader gives none
  raw,           \* the loaded rows
  cm,            \* the detected columns
  i,             \* the row the loop is at
  rows,          \* the normalized rows built so far
  emittedFrom,   \* for each built row, the index of the raw row it came from
  diag,          \* the diagnostic written to the page
  pooled,        \* the pooled series
  byGenre,       \* the six per-genre series
  countsByGenre, \* data.js: rows per genre
  dataByCentury, \* data.js: rows per century and genre
  drawn          \* whether the charts were drawn

VARIABLES
  visible,       \* data.js drawLineChart: genre -> shown
  hidden,        \* drawGenreLines, drawScatter: the Set of hidden genres
  display,       \* what each chart shows of each genre
  clicksMod2,    \* clicks on each legend entry so far, modulo 2
  nDbl,          \* double-clicks so far: 0, 1, or 2 for more
  last,          \* the last legend event
  open,          \* methods.js: the open property of each details element
  toggleQueue,   \* details elements with a toggle event waiting
  ran            \* the toggle handler that has just returned

vars ==
  <<page, pc, columns, raw, cm, i, rows, emittedFrom, diag, pooled, byGenre,
    countsByGenre, dataByCentury, drawn>>

uiVars == <<visible, hidden, display, clicksMod2, nDbl, last, open, toggleQueue, ran>>

NoDiag == [kind |-> "none"]

\* the details elements of the accordion
NumDetails == 4
Details == 1..NumDetails

\* the legends a page draws: drawLineChart on the data page,
\* drawGenreLines and drawScatter on the results pages
Legends(pg) ==
  CASE pg = "data"  -> {"lineChart"}
    [] pg \in Pages -> {"lines", "scatter"}
    [] OTHER        -> {}

NoEvent == [kind |-> "none"]
NoRun == [el |-> 0]

\* visible = all true, hidden = new Set(), every series drawn, every
\* details element closed and no event waiting
UiStart ==
  /\ visible = [k \in GenreSet |-> TRUE]
  /\ hidden = [l \in {"lines", "scatter"} |-> {}]
  /\ display = [l \in {"lineChart", "lines", "scatter"} |-> [k \in GenreSet |-> TRUE]]
  /\ clicksMod2 = [l \in {"lineChart", "lines", "scatter"} |-> [k \in GenreSet |-> 0]]
  /\ nDbl = 0
  /\ last = NoEvent
  /\ open = [d \in Details |-> FALSE]
  /\ toggleQueue = <<>>
  /\ ran = NoRun

Init ==
  /\ page \in Pages
  /\ pc = "load"
  /\ columns = None
  /\ raw = <<>>
  /\ cm = NoColumnMap
  /\ i = 1
  /\ rows = <<>>
  /\ emittedFrom = <<>>
  /\ diag = NoDiag
  /\ pooled = <<>>
  /\ byGenre = <<>>
  /\ countsByGenre = <<>>
  /\ dataByCentury = <<>>
  /\ drawn = FALSE
  /\ UiStart

\* raw = await d3.csv(CSV_PATH) resolves
LoadCsv ==
  /\ pc = "load"
  /\ \E ds \in Datasets :
       /\ raw' = ds.rows
       /\ columns' = Some(ds.columns)
  /\ pc' = "detect"
  /\ UNCHANGED <<page, cm, i, rows, emittedFrom, diag, pooled, byGenre,
                 countsByGenre, dataByCentury, drawn>>
  /\ UNCHANGED uiVars

\* the loader resolves with a value that has no columns
LoadWithoutColumns ==
  /\ pc = "load"
  /\ raw' = <<>>
  /\ columns' = None
  /\ pc' = "detect"
  /\ UNCHANGED <<page, cm, i, rows, emittedFrom, diag, pooled, byGenre,
                 countsByGenre, dataByCentury, drawn>>
  /\ UNCHANGED uiVars

\* a failed load that writes the message and goes on to the detection
LoadFailsAndGoesOn ==
  /\ pc = "load"
  /\ diag' = [kind |-> "load", path |-> CSV_PATH]
  /\ pc' = "detect"
  /\ UNCHANGED <<page, columns, raw, cm, i, rows, emittedFrom, pooled, byGenre,
                 countsByGenre, dataByCentury, drawn>>
  /\ UNCHANGED uiVars

\* d3.csv rejects: the catch block writes the message and returns
LoadFails ==
  /\ pc = "load"
  /\ diag' = [kind |-> "load", path |-> CSV_PATH]
  /\ pc' = "failed"
  /\ UNCHANGED <<page, columns, raw, cm, i, rows, emittedFrom, pooled, byGenre,
                 countsByGenre, dataByCentury, drawn>>
  /\ UNCHANGED uiVars

\* if (!raw || !raw.columns) return; then the column detection and the
\* check of the required columns
CheckColumns(m) ==
  /\ cm' = m
  /\ IF MissingRoles(page, m) # {}
     THEN /\ diag' = [kind |-> "schema", resolved |-> m, columns |-> Get(columns)]
          /\ pc' = "failed"
     ELSE /\ diag' = diag
          /\ pc' = "rows"

Detect ==
  /\ pc = "detect"
  /\ IF ~IsSome(columns)
     THEN /\ diag' = IF page = "data" THEN diag ELSE [kind |-> "nocolumns"]
          /\ pc' = "failed"
          /\ cm' = cm
     ELSE CheckColumns(DetectColumns(page, Get(columns)))
  /\ UNCHANGED <<page, columns, raw, i, rows, emittedFrom, pooled, byGenre,
                 countsByGenre, dataByCentury, drawn>>
  /\ UNCHANGED uiVars

\* a push whose pseudo-year also depends on how many records came before
PushShifted(rec) ==
  IF IsSome(rec)
  THEN /\ rows' = Append(rows, IF "year" \in DOMAIN Get(rec)
                               THEN [Get(rec) EXCEPT !.year = @ + Len(rows)]
                               ELSE Get(rec))
       /\ emittedFrom' = Append(emittedFrom, i)
  ELSE UNCHANGED <<rows, emittedFrom>>

\* a push that puts the record before the ones built so far
PushFront(rec) ==
  IF IsSome(rec)
  THEN /\ rows' = <<Get(rec)>> \o rows
       /\ emittedFrom' = <<i>> \o emittedFrom
  ELSE UNCHANGED <<rows, emittedFrom>>

\* rows.push(...) unless the row was skipped
Push(rec) ==
  IF IsSome(rec)
  THEN /\ rows' = Append(rows, Get(rec))
       /\ emittedFrom' = Append(emittedFrom, i)
  ELSE UNCHANGED <<rows, emittedFrom>>

\* one turn of for (const r of raw)
BuildRow ==
  /\ pc = "rows"
  /\ i <= Len(raw)
  /\ Push(BuildRecord(page, Get(columns), cm, raw[i]))
  /\ i' = i + 1
  /\ UNCHANGED <<page, pc, columns, raw, cm, diag, pooled, byGenre,
                 countsByGenre, dataByCentury, drawn>>
  /\ UNCHANGED uiVars

\* if (rows.length < N) { ...; return; }
CheckThreshold ==
  /\ pc = "rows"
  /\ i > Len(raw)
  /\ IF Len(rows) < MinRows(page)
     THEN /\ diag' = [kind |-> "insufficient", count |-> Len(rows), resolved |-> cm]
          /\ pc' = "failed"
     ELSE /\ diag' = diag
          /\ pc' = "aggregate"
  /\ UNCHANGED <<page, columns, raw, cm, i, rows, emittedFrom, pooled, byGenre,
                 countsByGenre, dataByCentury, drawn>>
  /\ UNCHANGED uiVars

Aggregate ==
  /\ pc = "aggregate"
  /\ IF page = "data"
     THEN /\ countsByGenre' = CountsByGenre(rows)
          /\ dataByCentury' = DataByCentury(rows)
          /\ UNCHANGED <<pooled, byGenre>>
     ELSE /\ pooled' = Pooled(page, rows)
          /\ byGenre' = ByGenre(page, rows)
          /\ UNCHANGED <<countsByGenre, dataByCentury>>
  /\ pc' = "draw"
  /\ UNCHANGED <<page, columns, raw, cm, i, rows, emittedFrom, diag, drawn>>
  /\ UNCHANGED uiVars

\* the draw... calls at the end of the handler
Draw ==
  /\ pc = "draw"
  /\ drawn' = TRUE
  /\ pc' = "done"
  /\ UNCHANGED <<page, columns, raw, cm, i, rows, emittedFrom, diag, pooled, byGenre,
                 countsByGenre, dataByCentury>>
  /\ UNCHANGED uiVars

Next ==
  \/ LoadCsv
  \/ LoadWithoutColumns
  \/ LoadFails
  \/ Detect
  \/ BuildRow
  \/ CheckThreshold
  \/ Aggregate
  \/ Draw

Spec == Init /\ [][Next]_vars

(* ------------------------------------------------------------------ *)
(* The pages after drawing: legend clicks and the methods accordion    *)
(* ------------------------------------------------------------------ *)
\* a toggle that only ever hides
HideOnly(h, genre) == h \cup {genre}

\* toggle: if (hidden.has(genre)) hidden.delete(genre); else hidden.add(genre)
toggle(h, genre) == IF genre \in h THEN h \ {genre} ELSE h \cup {genre}

\* row.on("click"): visible[k] = !visible[k]
ClickVisible(v, k) == [v EXCEPT ![k] = ~@]

\* a double click that always isolates the genre
AlwaysSolo(v, k) == [gg \in GenreSet |-> gg = k]

\* row.on("dblclick"): solo, or reset when k is the only one visible
DblClickVisible(v, k) ==
  LET currentlySolo == \A gg \in GenreSet : IF gg = k THEN v[gg] ELSE ~v[gg]
  IN IF currentlySolo
     THEN [gg \in GenreSet |-> TRUE]
     ELSE [gg \in GenreSet |-> gg = k]

\* applyVisibility(): every line and legend entry follows visible
applyVisibility(v) == [k \in GenreSet |-> v[k]]

Counted(l, k) == [clicksMod2 EXCEPT ![l][k] = (@ + 1) % 2]

\* a click on an entry of the legend of drawGenreLines or drawScatter:
\* the first sets the display of the paths of that genre, the second
\* recomputes the display of every dot
LegendClick(l, k) ==
  /\ pc = "done"
  /\ l \in Legends(page) \ {"lineChart"}
  /\ LET h == toggle(hidden[l], k)
     IN /\ hidden' = [hidden EXCEPT ![l] = h]
        /\ display' = [display EXCEPT ![l] =
                         IF l = "lines"
                         THEN [@ EXCEPT ![k] = ~(k \in h)]
                         ELSE [g \in GenreSet |-> ~(g \in h)]]
  /\ clicksMod2' = Counted(l, k)
  /\ last' = [kind |-> "click", legend |-> l, k |-> k]
  /\ UNCHANGED <<visible, nDbl, open, toggleQueue, ran>>
  /\ UNCHANGED vars

\* a click on an entry of the legend of drawLineChart
RowClick(k) ==
  /\ pc = "done"
  /\ "lineChart" \in Legends(page)
  /\ visible' = ClickVisible(visible, k)
  /\ display' = [display EXCEPT !["lineChart"] = applyVisibility(visible')]
  /\ clicksMod2' = Counted("lineChart", k)
  /\ last' = [kind |-> "click", legend |-> "lineChart", k |-> k]
  /\ UNCHANGED <<hidden, nDbl, open, toggleQueue, ran>>
  /\ UNCHANGED vars

\* a dblclick event on an entry of the legend of drawLineChart
RowDblClick(k) ==
  /\ pc = "done"
  /\ "lineChart" \in Legends(page)
  /\ visible' = DblClickVisible(visible, k)
  /\ display' = [display EXCEPT !["lineChart"] = applyVisibility(visible')]
  /\ nDbl' = IF nDbl < 2 THEN nDbl + 1 ELSE nDbl
  /\ last' = [kind |-> "dblclick", legend |-> "lineChart", k |-> k]
  /\ UNCHANGED <<hidden, clicksMod2, open, toggleQueue, ran>>
  /\ UNCHANGED vars

\* a change of the open attribute queues the toggle event of the
\* element; an event of the element that still waits is replaced
QueueToggle(q, d) == Append(SelectSeq(q, LAMBDA e : e # d), d)

\* a handler that does not look at d.open
HandlerUnguarded(op, d) == [other \in Details |-> other = d /\ op[other]]

\* the toggle listener of d: if (!d.open) return; every other is closed
ToggleHandler(op, d) ==
  IF ~op[d] THEN op ELSE [other \in Details |-> other = d]

\* the events of the elements the listener closed, in document order
RECURSIVE QueueClosed(_, _, _, _)
QueueClosed(q, before, after, n) ==
  IF n > NumDetails THEN q
  ELSE QueueClosed(IF before[n] /\ ~after[n] THEN QueueToggle(q, n) ELSE q,
                   before, after, n + 1)

\* the user opens or closes a details element
UserToggles(d) ==
  /\ page = "methods"
  /\ open' = [open EXCEPT ![d] = ~@]
  /\ toggleQueue' = QueueToggle(toggleQueue, d)
  /\ ran' = NoRun
  /\ UNCHANGED <<visible, hidden, display, clicksMod2, nDbl, last>>
  /\ UNCHANGED vars

\* the first waiting toggle event is dispatched to its listener
HandleToggle ==
  /\ page = "methods"
  /\ toggleQueue # <<>>
  /\ LET d == Head(toggleQueue)
         after == ToggleHandler(open, d)
     IN /\ open' = after
        /\ toggleQueue' = QueueClosed(Tail(toggleQueue), open, after, 1)
        /\ ran' = [el |-> d, wasOpen |-> open[d]]
  /\ UNCHANGED <<visible, hidden, display, clicksMod2, nDbl, last>>
  /\ UNCHANGED vars

\* a page whose handler has finished drawing, or the methods page
UiInit ==
  /\ page \in Pages \cup {"methods"}
  /\ pc = "done"
  /\ columns = None
  /\ raw = <<>>
  /\ cm = NoColumnMap
  /\ i = 1
  /\ rows = <<>>
  /\ emittedFrom = <<>>
  /\ diag = NoDiag
  /\ pooled = <<>>
  /\ byGenre = <<>>
  /\ countsByGenre = <<>>
  /\ dataByCentury = <<>>
  /\ drawn = TRUE
  /\ UiStart

UiNext ==
  \/ \E l \in {"lines", "scatter"}, k \in GenreSet : LegendClick(l, k)
  \/ \E k \in GenreSet : RowClick(k)
  \/ \E k \in GenreSet : RowDblClick(k)
  \/ \E d \in Details : UserToggles(d)
  \/ HandleToggle

UiSpec == UiInit /\ [][UiNext]_<<vars, uiVars>>

(* ------------------------------------------------------------------ *)
(* Properties                                                          *)
(* ------------------------------------------------------------------ *)
ResultsPages == {"v1500", "results", "continuous"}

\* the aggregates have been computed
Aggregated == pc \in {"draw", "done"}

\* the centuries a page aggregates over
ActiveWindow(pg) == FirstCentury(pg)..MAX_C

\* the cells of the raw row the k-th record was built from
SourceRow(k) == raw[emittedFrom[k]]

\* C1: every record of the emitted list has a century inside the active
\* window of its page ([1,15] on results, [2,15] elsewhere).
C1_CenturyInWindow ==
  \A k \in 1..Len(rows) : rows[k].century \in ActiveWindow(page)

\* C2: the genre of every emitted record is one of the six codes.
C2_GenreIsCode ==
  \A k \in 1..Len(rows) : rows[k].genre \in GenreSet

CanonicalFields == {"genre", "century", "year", "love", "title", "author", "uri"}

\* C3: on the results pages every emitted record carries all seven fields,
\* and it comes from a row whose genre, century and score all resolved.
C3_AllSevenFields ==
  page \in ResultsPages =>
    \A k \in 1..Len(rows) :
      /\ DOMAIN rows[k] = CanonicalFields
      /\ Truthy(ResolveGenre(page, Get(columns), cm, SourceRow(k)))
      /\ IsSome(ResolveCentury(page, Get(columns), cm, SourceRow(k)))
      /\ IsSome(coerceNumber(page, Cell(Get(columns), SourceRow(k), cm.love)))

\* min(2, max(0, s)), written out by cases
ClampRef(s) ==
  IF ~NumGE(s, 0) THEN NumOfInt(0) ELSE IF ~NumLE(s, 2) THEN NumOfInt(2) ELSE s

\* whether the record love was clamped from the coerced score s as C4 says
ClampedFrom(love, s) ==
  /\ IsSome(s)
  /\ love = ClampRef(Get(s))
  /\ NumGE(love, 0)
  /\ NumLE(love, 2)

\* C4: the love index of every emitted record is min(2, max(0, s)) of the
\* coerced score s of its row, hence inside [0, 2].
C4_LoveIndexClamped ==
  page \in ResultsPages =>
    \A k \in 1..Len(rows) :
      ClampedFrom(rows[k].love,
                  coerceNumber(page, Cell(Get(columns), SourceRow(k), cm.love)))

\* C4, its case: a record built from a negative score carries 0.
C4_Witness ==
  /\ page \in ResultsPages
  /\ \E k \in 1..Len(rows) :
       /\ ~NumGE(Get(coerceNumber(page, Cell(Get(columns), SourceRow(k), cm.love))), 0)
       /\ rows[k].love = NumOfInt(0)

\* the row loop ran to its end and the threshold test stopped the handler
StoppedAtThreshold ==
  pc = "failed" /\ IsSome(columns) /\ MissingRoles(page, cm) = {}

NoAggregates ==
  /\ pooled = <<>>
  /\ byGenre = <<>>
  /\ countsByGenre = <<>>
  /\ dataByCentury = <<>>
  /\ ~drawn

\* C5: with fewer records than the minimum (10 on the data page, 20 on the
\* results pages) the handler ends with the insufficient-data diagnostic,
\* no aggregate and no chart; aggregation is reached only with the minimum
\* or more.
C5_Threshold ==
  /\ pc \in {"aggregate", "draw", "done"} =>
       /\ Len(rows) >= (IF page = "data" THEN 10 ELSE 20)
       /\ diag.kind # "insufficient"
  /\ StoppedAtThreshold =>
       /\ Len(rows) < (IF page = "data" THEN 10 ELSE 20)
       /\ diag.kind = "insufficient"
       /\ diag.count = Len(rows)
       /\ NoAggregates
  /\ diag.kind = "insufficient" => StoppedAtThreshold

\* C5, its case: nine records on the data page end in the diagnostic.
C5_Witness ==
  /\ page = "data"
  /\ Len(rows) = 9
  /\ StoppedAtThreshold
  /\ diag.kind = "insufficient"

\* the bucket b is the one of the records of genre (None: all) and century b.century
BucketOf(b, rs, genre) ==
  /\ b.n = Len(LoveVals(rs, genre, b.century))
  /\ b.n > 0
  /\ b.mean = d3mean(LoveVals(rs, genre, b.century))

\* series has one bucket for each century among the records rs of genre, and no other
BucketsOf(series, rs, genre) ==
  /\ {series[k].century : k \in 1..Len(series)}
       = {rs[j].century : j \in {j \in 1..Len(rs) : Matches(rs[j], genre, rs[j].century)}}
  /\ \A j, k \in 1..Len(series) : series[j].century = series[k].century => j = k
  /\ \A k \in 1..Len(series) : BucketOf(series[k], rs, genre)

\* C6: the pooled series has exactly one bucket for each century occurring
\* among the emitted records, with n their number and mean their mean.
C6_PooledBuckets ==
  (Aggregated /\ page \in ResultsPages) => BucketsOf(pooled, rows, None)

\* C7: six per-genre series in the order BIO, DEV, PHI, POE, RHE, THE; the
\* series of g has a bucket for century c exactly when a record has genre g
\* and century c, with n their number (never 0) and mean their mean.
C7_GenreSeries ==
  (Aggregated /\ page \in ResultsPages) =>
    /\ Len(byGenre) = Len(GENRES)
    /\ \A g \in 1..Len(byGenre) :
         /\ byGenre[g].genre = GENRES[g]
         /\ BucketsOf(byGenre[g].values, rows, Some(GENRES[g]))
    /\ \A k \in 1..Len(pooled) : pooled[k].n > 0

RECURSIVE Reverse(_)
Reverse(s) == IF s = <<>> THEN <<>> ELSE Reverse(Tail(s)) \o <<Head(s)>>

\* the record list the row loop builds from the rows rs
RECURSIVE BuildAll(_, _, _, _)
BuildAll(pg, cols, m, rs) ==
  IF rs = <<>> THEN <<>>
  ELSE BuildRecord(pg, cols, m, Head(rs)) \o BuildAll(pg, cols, m, Tail(rs))

SameAggregates(rs) ==
  IF page = "data"
  THEN CountsByGenre(rs) = countsByGenre /\ DataByCentury(rs) = dataByCentury
  ELSE Pooled(page, rs) = pooled /\ ByGenre(page, rs) = byGenre

\* C8: the aggregates of the rows taken in another order (here: reversed)
\* are the aggregates computed: same buckets, century, n and mean.
C8_OrderIndependent ==
  Aggregated => SameAggregates(BuildAll(page, Get(columns), cm, Reverse(raw)))

\* the candidate lists of a role, as the page's detection code lists them
ExactNames(pg, role) ==
  CASE pg = "data" -> DataCandidates[role].exact
    [] pg = "results" /\ role = "genre" ->
         ResultsCandidates.genreCode.exact \o ResultsCandidates.genreLabel.exact
    [] pg = "results" /\ role = "love" ->
         ResultsCandidates.love.exact \o ResultsCandidates.love.exact2
    [] pg = "results" /\ role \notin {"genre", "love"} -> ResultsCandidates[role].exact
    [] OTHER -> V1500Candidates[role].exact

FuzzyNames(pg, role) ==
  CASE pg = "data" -> DataCandidates[role].fuzzy
    [] pg = "results" /\ role = "genre" ->
         ResultsCandidates.genreCode.fuzzy \o ResultsCandidates.genreLabel.fuzzy
    [] pg = "results" /\ role # "genre" -> ResultsCandidates[role].fuzzy
    [] OTHER -> V1500Candidates[role].fuzzy

Roles(pg) ==
  IF pg = "data" THEN {"genre", "era", "year"}
  ELSE {"genre", "era", "love", "title", "author", "uri"}

EqualsAny(h, names) ==
  \E k \in 1..Len(names) : lower(Some(h)) = toLowerCase(names[k])

ContainsAny(h, names) ==
  \E k \in 1..Len(names) : includes(lower(Some(h)), toLowerCase(names[k]))

\* col is what C9 allows for a role with these candidates under the headers hs
Precedence(hs, col, exact, fuzzy) ==
  IF \E j \in 1..Len(hs) : EqualsAny(hs[j], exact)
  THEN IsSome(col) /\ EqualsAny(Get(col), exact)
  ELSE IF \E j \in 1..Len(hs) : ContainsAny(hs[j], fuzzy)
  THEN IsSome(col) /\ ContainsAny(Get(col), fuzzy)
  ELSE col = None

\* C9: for every role, when a header equals one of the role's exact names
\* the resolved column is such a header; a header that only contains a
\* fuzzy name is resolved when no exact name matches; absent otherwise.
C9_ExactBeatsFuzzy ==
  (IsSome(columns) /\ pc \notin {"load", "detect"}) =>
    \A role \in Roles(page) :
      Precedence(Get(columns), cm[role], ExactNames(page, role), FuzzyNames(page, role))

IsWordChar(c) == PosIn(c, UpperAlpha) > 0 \/ PosIn(c, LowerAlpha) > 0 \/ IsDigit(c)

\* the code g stands in u at position p with no letter or digit on either side
TokenAt(u, g, p) ==
  /\ SubSeq(u, p, p + Len(g) - 1) = g
  /\ (p = 1 \/ ~IsWordChar(Ch(u, p - 1)))
  /\ (p + Len(g) > Len(u) \/ ~IsWordChar(Ch(u, p + Len(g))))

HasToken(u, g) == \E p \in 1..(Len(u) - Len(g) + 1) : TokenAt(u, g, p)

LetterCode(k) ==
  CASE k = "b" -> Some("BIO")
    [] k = "d" -> Some("DEV")
    [] k = "n" -> Some("PHI")
    [] k = "p" -> Some("POE")
    [] k = "r" -> Some("RHE")
    [] k = "k" -> Some("THE")
    [] OTHER   -> None

\* the reference of C10 on the upper-cased and lower-cased trimmed value
GenreRefUpLow(up, k) ==
  IF SeqIncludes(GENRES, up) THEN Some(up)
  ELSE IF IsSome(LetterCode(k)) THEN LetterCode(k)
  ELSE FindGenre(LAMBDA g : startsWith(up, g) \/ HasToken(up, g))

GenreRef(v) == GenreRefUpLow(toUpperCase(norm(v)), toLowerCase(norm(v)))

\* what the page's genre function makes of one raw value
GenreOfValue(pg, v) ==
  CASE pg = "data"    -> InferValueTrimmed(norm(v))
    [] pg = "results" -> InferTrimmed(norm(v))
    [] OTHER          -> normalizeGenre(v)

\* C10: the genre resolved from the raw genre value of the row at hand is
\* the reference: exact code, else letter code, else the first code the
\* value starts with or holds as a separated token, else absent.
C10_GenreReference ==
  (pc = "rows" /\ i <= Len(raw)) =>
    GenreOfValue(page, Cell(Get(columns), raw[i], cm.genre))
      = GenreRef(Cell(Get(columns), raw[i], cm.genre))

\* the row loop is at row i
AtRow == pc = "rows" /\ i <= Len(raw)

\* the cell of the row at hand under the column of a role
CellOf(role) == Cell(Get(columns), raw[i], cm[role])

\* what a page's era function makes of a coerced number
EraOfNumber(pg, v) ==
  IF pg = "data" THEN CenturyOfCoerced(v) ELSE inferCenturyFromValue(v)

\* a resolved century as a number
AsNum(c) == IF IsSome(c) THEN Some(NumOfInt(Get(c))) ELSE None

\* floor((v - 1) / 100) + 1 when it lies in [1, 30]
YearRef(c) == IF c >= 1 /\ c <= 30 THEN Some(NumOfInt(c)) ELSE None

\* the era rule on a number v: v itself in [1, 30], the century of the year
\* in [50, 2000], absent elsewhere
EraRef(v) ==
  IF NumGE(v, 1) /\ NumLE(v, 30) THEN Some(v)
  ELSE IF NumGE(v, 50) /\ NumLE(v, 2000)
  THEN YearRef(((v.n - Pow10(v.d)) \div (100 * Pow10(v.d))) + 1)
  ELSE None

\* C11: the century resolved from the coerced era value v of the row at
\* hand is v itself when 1 <= v <= 30, floor((v-1)/100)+1 (if within
\* [1, 30]) when 50 <= v <= 2000, and absent in every other case.
C11_EraReference ==
  (AtRow /\ Truthy(cm.era) /\ IsSome(coerceNumber(page, CellOf("era")))) =>
    AsNum(EraOfNumber(page, coerceNumber(page, CellOf("era"))))
      = EraRef(Get(coerceNumber(page, CellOf("era"))))

\* an integer century of the canonical range 1..15
IsCanonicalCentury(v) == IsSome(v) /\ Get(v).d = 0 /\ Get(v).n \in 1..15

\* C12: an era value that is already an integer century c of 1..15
\* resolves to c.
C12_Idempotent ==
  (AtRow /\ Truthy(cm.era) /\ IsCanonicalCentury(coerceNumber(page, CellOf("era")))) =>
    EraOfNumber(page, coerceNumber(page, CellOf("era")))
      = Some(Get(coerceNumber(page, CellOf("era"))).n)

\* a cell holds a numeric token exactly when it holds a digit
HasNumericToken(x) ==
  IsSome(x) /\ \E j \in 1..Len(Get(x)) : IsDigit(Ch(Get(x), j))

\* the roles whose cells are coerced to numbers
NumericRoles(pg) == IF pg = "data" THEN {"era", "year"} ELSE {"era", "love"}

\* C13: a cell without a numeric token coerces to absent, and no record of
\* a results page comes from a row whose score cell has no numeric token.
C13_NoTokenIsAbsent ==
  /\ AtRow =>
       \A role \in NumericRoles(page) :
         (Truthy(cm[role]) /\ ~HasNumericToken(CellOf(role))) =>
           ~IsSome(coerceNumber(page, CellOf(role)))
  /\ page \in ResultsPages =>
       \A k \in 1..Len(rows) :
         HasNumericToken(Cell(Get(columns), SourceRow(k), cm.love))

\* the value of a trimmed string that is a clean number
CleanNumber(t) == IF t = "" THEN None ELSE TrimmedToNumber(t)

\* the clean number if the string is one, else its first embedded token
CleanOrToken(s) ==
  IF IsSome(CleanNumber(trim(s))) THEN CleanNumber(trim(s))
  ELSE MatchToNumber(RegexFirstNumber(s))

\* the reference coercion: decimal comma read as a decimal point first
CoerceRef(x) == CleanOrToken(replaceFirst(Get(x), ",", "."))

\* C14: a cell of the row at hand that holds a numeric token coerces to
\* the clean number it is (decimal comma as point), else to the value of
\* its first embedded token.
C14_CoerceReference ==
  AtRow =>
    \A role \in NumericRoles(page) :
      (Truthy(cm[role]) /\ HasNumericToken(CellOf(role))) =>
        coerceNumber(page, CellOf(role)) = CoerceRef(CellOf(role))

\* the pages whose records carry a pseudo-year
YearPages == {"v1500", "continuous"}

\* the seed of a record: uri || title || author
SeedOf(r) == Seed(r.uri, r.title, r.author)

\* C15: the pseudo-year of every record lies in its century's bucket,
\* (century-1)*100 < yearApprox <= century*100, the offset being 0..99.
C15_YearInCentury ==
  page \in YearPages =>
    \A k \in 1..Len(rows) :
      /\ (rows[k].century - 1) * 100 < rows[k].year
      /\ rows[k].year <= rows[k].century * 100
      /\ hashJitter(SeedOf(rows[k])) \in 0..99

\* C15, its case: records with a pseudo-year, one at a non-zero offset and
\* one seeded by its title or author for want of a uri.
C15_Witness ==
  /\ page \in YearPages
  /\ \E k \in 1..Len(rows) : rows[k].year > (rows[k].century - 1) * 100 + 1
  /\ \E k \in 1..Len(rows) : rows[k].uri = "" /\ SeedOf(rows[k]) # ""

NeededRoles(pg) == IF pg = "data" THEN {"genre", "era"} ELSE {"genre", "love", "era"}

RoleResolved(pg, m, role) ==
  IF pg = "data" /\ role = "era" THEN Truthy(m.era) \/ Truthy(m.year)
  ELSE Truthy(m[role])

\* the detection ran on a header list
Detected == IsSome(columns) /\ pc \notin {"load", "detect"}

\* C17: once the detection has left a needed role unresolved the handler
\* has stopped with the schema diagnostic, which carries the resolved and
\* unresolved roles and the whole header list; no row was looked at, no
\* record built, and the diagnostic is not the insufficient-data one.
C17_SchemaFailure ==
  (Detected /\ \E role \in NeededRoles(page) : ~RoleResolved(page, cm, role)) =>
    /\ pc = "failed"
    /\ diag.kind = "schema"
    /\ diag.resolved = cm
    /\ diag.columns = Get(columns)
    /\ i = 1
    /\ rows = <<>>
    /\ NoAggregates

\* something after the load has happened
Downstream == cm # NoColumnMap \/ i # 1 \/ rows # <<>> \/ ~NoAggregates

\* C18: nothing downstream of the load exists before the read resolves or
\* after it failed; a failed read ends the handler for good (it is never
\* back at the load) with a diagnostic that carries the path.
C18_LoadGates ==
  /\ pc = "load" => (~Downstream /\ columns = None /\ diag = NoDiag)
  /\ Downstream => (IsSome(columns) /\ diag.kind # "load")
  /\ diag.kind = "load" =>
       /\ pc = "failed"
       /\ diag.path = CSV_PATH
       /\ columns = None
       /\ raw = <<>>
       /\ ~Downstream

\* C18, its case: the read failed and the handler has ended.
C18_Witness == diag.kind = "load" /\ pc = "failed"

\* C19: a handler that ended in failure has written a diagnostic.
C19_FailureHasDiagnostic ==
  pc = "failed" => diag.kind \in {"load", "nocolumns", "schema", "insufficient"}

\* C20: on the data page, when the century column of the row at hand gives
\* no century and a year-like column is configured, the century is the
\* era rule applied to the year-like value (1..30 directly, 50..2000 as a
\* year, else absent); a year-like value of 7 gives 7.
C20_YearFallback ==
  (/\ page = "data"
   /\ AtRow
   /\ Truthy(cm.year)
   /\ ~IsSome(inferCenturyValue(Get(columns), cm, raw[i]))
   /\ IsSome(coerceNumber(page, CellOf("year")))) =>
    AsNum(CenturyData(Get(columns), cm, raw[i]))
      = EraRef(Get(coerceNumber(page, CellOf("year"))))

\* the genre code, if any, that the page's genre function makes of the
\* value a row holds in the resolved genre column
GenreCodeOfRow(cells) == GenreOfValue(page, Cell(Get(columns), cells, cm.genre))

\* C21: every record comes from a row whose value in the resolved genre
\* column resolves to one of the six codes; a row whose value does not is
\* dropped.
C21_NoGenreNoRecord ==
  \A k \in 1..Len(rows) :
    /\ IsSome(GenreCodeOfRow(SourceRow(k)))
    /\ Get(GenreCodeOfRow(SourceRow(k))) \in GenreSet

\* the trimmed cell of an optional role, the empty string when its column
\* was not detected
TrimmedOrEmpty(role, cells) ==
  IF IsSome(cm[role]) /\ Get(cm[role]) # ""
  THEN trim(IF IsSome(Cell(Get(columns), cells, cm[role]))
            THEN Get(Cell(Get(columns), cells, cm[role])) ELSE "")
  ELSE ""

\* identifier, else title, else author
SeedRef(cells) ==
  IF TrimmedOrEmpty("uri", cells) # "" THEN TrimmedOrEmpty("uri", cells)
  ELSE IF TrimmedOrEmpty("title", cells) # "" THEN TrimmedOrEmpty("title", cells)
  ELSE TrimmedOrEmpty("author", cells)

\* genre, century and score of the row all resolve
RequiredResolve(cells) ==
  /\ Truthy(ResolveGenre(page, Get(columns), cm, cells))
  /\ IsSome(ResolveCentury(page, Get(columns), cm, cells))
  /\ IsSome(coerceNumber(page, Cell(Get(columns), cells, cm.love)))

\* C22: the optional fields of a record are the trimmed cells (empty for
\* an undetected column), its pseudo-year is synthesized from identifier,
\* else title, else author, and a row whose required values resolve is
\* not dropped whatever its optional fields are.
C22_SeedOrder ==
  page \in YearPages =>
    /\ \A k \in 1..Len(rows) :
         /\ rows[k].uri = TrimmedOrEmpty("uri", SourceRow(k))
         /\ rows[k].title = TrimmedOrEmpty("title", SourceRow(k))
         /\ rows[k].author = TrimmedOrEmpty("author", SourceRow(k))
         /\ rows[k].year = (rows[k].century - 1) * 100 + hashJitter(SeedRef(SourceRow(k))) + 1
    /\ AtRow =>
         (RequiredResolve(raw[i]) => IsSome(BuildRecord(page, Get(columns), cm, raw[i])))

\* C22, its case: a record with an identifier and a title that hash to
\* different offsets, and a record with an empty identifier that is
\* seeded by its title or author.
C22_Witness ==
  /\ page \in YearPages
  /\ \E k \in 1..Len(rows) :
       /\ rows[k].uri # ""
       /\ rows[k].title # ""
       /\ hashJitter(rows[k].uri) # hashJitter(rows[k].title)
  /\ \E k \in 1..Len(rows) : rows[k].uri = "" /\ SeedOf(rows[k]) # ""

\* 2166136261 and 16777619 * x as natural numbers of any size
FnvBasisRef == BigAdd(BigMulC(BigMulC(BigFromInt(2166), 1000, 0), 1000, 0), BigFromInt(136261))

TimesFnvPrime(x) == BigAdd(BigMulC(BigMulC(x, 4096, 0), 4096, 0), BigMulC(x, 403, 0))

\* x mod 2^32: 32 = 2 * 14 + 4 bits of the limbs of x
Mod32Limbs(x) == BigNorm(<<x[1], x[2], x[3] % 16>>)

Mod32(x) == Mod32Limbs(x \o Zeros(3))

\* h XOR u for a code unit u below 2^14
XorUnit(h, u) == BigNorm(<<BitXor(h[1], u)>> \o Tail(h))

RECURSIVE BigToInt(_)
BigToInt(a) == IF a = <<>> THEN 0 ELSE a[1] + LimbBase * BigToInt(Tail(a))

\* h := ((h XOR u) * 16777619) mod 2^32 over the code units of s in order
RECURSIVE HashRef(_, _)
HashRef(s, h) ==
  IF s = "" THEN h
  ELSE HashRef(Tail(s), Mod32(TimesFnvPrime(XorUnit(h \o Zeros(1), charCode(Ch(s, 1))))))

\* floor(h * 100 / 2^32) for the unsigned h
OffsetRef(seed) == BigToInt(BigShr(BigMulC(HashRef(seed, FnvBasisRef), 100, 0), 32).q)

\* C23: the offset of every record is floor(h * 100 / 2^32) for the
\* unsigned 32-bit FNV-1a hash h of its seed, it lies in 0..99, and the
\* pseudo-year is (century - 1) * 100 + offset + 1.
C23_HashArithmetic ==
  page \in YearPages =>
    \A k \in 1..Len(rows) :
      /\ hashJitter(SeedOf(rows[k])) = OffsetRef(SeedOf(rows[k]))
      /\ OffsetRef(SeedOf(rows[k])) \in 0..99
      /\ rows[k].year = (rows[k].century - 1) * 100 + OffsetRef(SeedOf(rows[k])) + 1

\* C23, its case: a record whose seed of several code units hashes to a
\* value with the top bit set, negative as a signed 32-bit integer.
C23_Witness ==
  /\ page \in YearPages
  /\ \E k \in 1..Len(rows) :
       /\ Len(SeedOf(rows[k])) >= 2
       /\ BigShr(HashRef(SeedOf(rows[k]), FnvBasisRef), 31).q # <<>>

\* the candidate table of a page
CandidatesOf(pg) ==
  CASE pg = "data"    -> DataCandidates
    [] pg = "results" -> ResultsCandidates
    [] OTHER          -> V1500Candidates

\* the exact and the fuzzy candidate lists a page looks up
ExactLists(pg) ==
  {CandidatesOf(pg)[r].exact : r \in DOMAIN CandidatesOf(pg)}
    \cup (IF pg = "results" THEN {ResultsCandidates.love.exact2} ELSE {})

FuzzyLists(pg) == {CandidatesOf(pg)[r].fuzzy : r \in DOMAIN CandidatesOf(pg)}

\* the trimmed lower-case forms of headers, the lower-case forms of names
LowHeaders(hs) == [j \in 1..Len(hs) |-> toLowerCase(trim(hs[j]))]
LowNames(names) == [k \in 1..Len(names) |-> toLowerCase(names[k])]

ExactMatch(low, name) == low = name
FuzzyMatch(low, name) == includes(low, name)

\* the headers matching the k-th name, as positions
HitsOf(lows, names, k, Match(_, _)) == {j \in 1..Len(lows) : Match(lows[j], names[k])}

\* the earliest-listed name that has a match
FirstName(lows, names, Match(_, _)) ==
  MinOf({k \in 1..Len(names) : HitsOf(lows, names, k, Match) # {}})

OrderedRefLow(hs, lows, names, Match(_, _)) ==
  IF \E k \in 1..Len(names) : HitsOf(lows, names, k, Match) # {}
  THEN Some(hs[MinOf(HitsOf(lows, names, FirstName(lows, names, Match), Match))])
  ELSE None

\* the earliest header matching the earliest-listed name that has a match
OrderedRef(hs, names, Match(_, _)) ==
  OrderedRefLow(hs, LowHeaders(hs), LowNames(names), Match)

HeaderOrAbsent(hs, col) == col = None \/ \E j \in 1..Len(hs) : col = Some(hs[j])

\* C24: right after the detection, every lookup of a candidate list gives
\* the earliest header matching the earliest-listed candidate that has a
\* match, unmodified, or absent; every detected column is one of the
\* headers or absent.
C24_CandidateOrder ==
  (Detected /\ i = 1) =>
    /\ \A names \in ExactLists(page) :
         /\ findColumn(Get(columns), names) = OrderedRef(Get(columns), names, ExactMatch)
         /\ HeaderOrAbsent(Get(columns), findColumn(Get(columns), names))
    /\ \A names \in FuzzyLists(page) :
         /\ findColumnFuzzy(Get(columns), names) = OrderedRef(Get(columns), names, FuzzyMatch)
         /\ HeaderOrAbsent(Get(columns), findColumnFuzzy(Get(columns), names))
    /\ \A role \in DOMAIN cm : HeaderOrAbsent(Get(columns), cm[role])

\* C24, its case: an earlier header matches only a later-listed candidate
\* and a later header, which is returned, matches an earlier-listed one.
C24_Witness ==
  /\ Detected
  /\ i = 1
  /\ \E names \in ExactLists(page) :
       \E j1, j2 \in 1..Len(Get(columns)) :
         /\ j1 < j2
         /\ findColumn(Get(columns), names) = Some(Get(columns)[j2])
         /\ Get(columns)[j1] # Get(columns)[j2]
         /\ \E k \in 1..Len(names) :
              ExactMatch(LowHeaders(Get(columns))[j1], LowNames(names)[k])

\* the record the row loop makes of the cells of one row, None if rejected
RecordOf(cells) == BuildRecord(page, Get(columns), cm, cells)

\* the row j just passed is the source of the last record exactly when it
\* is accepted
Accounted(j, rec) ==
  IF IsSome(rec)
  THEN /\ rows # <<>>
       /\ emittedFrom[Len(rows)] = j
       /\ rows[Len(rows)] = Get(rec)
  ELSE rows = <<>> \/ emittedFrom[Len(rows)] < j

\* C25: the record list is the row sequence with the rejected rows
\* removed, in input order; every record is what its own row and the
\* ColumnMap give, and the rows in reverse order give the same records.
C25_RowIndependence ==
  /\ Len(emittedFrom) = Len(rows)
  /\ \A k \in 1..Len(rows) :
       /\ emittedFrom[k] < i
       /\ k > 1 => emittedFrom[k - 1] < emittedFrom[k]
       /\ RecordOf(SourceRow(k)) = Some(rows[k])
  /\ (pc = "rows" /\ i > 1) => Accounted(i - 1, RecordOf(raw[i - 1]))
  /\ Aggregated => BuildAll(page, Get(columns), cm, Reverse(raw)) = Reverse(rows)

\* C25, its case: the loop has ended, a rejected row was left out and the
\* rows after it were kept in their order.
C25_Witness ==
  /\ Aggregated
  /\ Len(rows) > 2
  /\ emittedFrom[1] > 1

RECURSIVE SumSeq(_)
SumSeq(s) == IF s = <<>> THEN 0 ELSE Head(s) + SumSeq(Tail(s))

\* the six per-genre counts, and the per-century totals over the six genres
GenreTotals == [k \in 1..Len(GENRES) |-> countsByGenre[GENRES[k]]]

CenturyTotals ==
  [k \in 1..Len(dataByCentury) |->
     SumSeq([j \in 1..Len(GENRES) |-> dataByCentury[k].counts[GENRES[j]]])]

DataAggregated == page = "data" /\ Aggregated /\ countsByGenre # <<>>

\* C26: on the data page, after aggregation the six per-genre counts sum
\* to the number of emitted rows, and so do the cells of dataByCentury
\* over the centuries 2..15; every emitted row has one of the six genres
\* and an integer century in 2..15.
C26_CountsConserved ==
  DataAggregated =>
    /\ SumSeq(GenreTotals) = Len(rows)
    /\ SumSeq(CenturyTotals) = Len(rows)
    /\ Len(dataByCentury) = 14
    /\ \A k \in 1..Len(dataByCentury) : dataByCentury[k].century = k + 1
    /\ \A k \in 1..Len(rows) :
         /\ rows[k].century \in 2..15
         /\ rows[k].genre \in GenreSet

\* C26, its case: the data page has aggregated rows of more than one
\* century after leaving a row out.
C26_Witness ==
  /\ DataAggregated
  /\ emittedFrom[1] > 1
  /\ \E k \in 1..Len(rows) : rows[k].century # rows[1].century

\* identifier, title and author of the row are all empty after trimming,
\* as cells or because their columns were not detected
NoSeedCells(cells) ==
  /\ TrimmedOrEmpty("uri", cells) = ""
  /\ TrimmedOrEmpty("title", cells) = ""
  /\ TrimmedOrEmpty("author", cells) = ""

EmptySeed(r) == r.uri = "" /\ r.title = "" /\ r.author = ""

\* floor(2166136261 * 100 / 2^32), from the basis as a big number
BasisOffsetRef == BigToInt(BigShr(BigMulC(FnvBasisRef, 100, 0), 32).q)

\* C27: a record whose identifier, title and author are all empty has the
\* empty seed, the hash of which is the initial value 2166136261, offset
\* 50 and pseudo-year (century - 1) * 100 + 51; two such records of one
\* century have the same pseudo-year.
C27_EmptySeedYear ==
  page \in YearPages =>
    /\ BasisOffsetRef = 50
    /\ \A k \in 1..Len(rows) :
         /\ NoSeedCells(SourceRow(k)) <=> EmptySeed(rows[k])
         /\ EmptySeed(rows[k]) =>
              /\ SeedOf(rows[k]) = ""
              /\ FnvHash(SeedOf(rows[k]), [hi |-> FnvOffsetHi, lo |-> FnvOffsetLo])
                   = [hi |-> FnvOffsetHi, lo |-> FnvOffsetLo]
              /\ HashRef(SeedOf(rows[k]), FnvBasisRef) = FnvBasisRef
              /\ rows[k].year = (rows[k].century - 1) * 100 + 51
    /\ \A k \in 1..Len(rows), m \in 1..Len(rows) :
         (EmptySeed(rows[k]) /\ EmptySeed(rows[m]) /\ rows[k].century = rows[m].century)
           => rows[k].year = rows[m].year

\* C27, its case: two records of one century without identifier, title
\* and author, and one of them from cells that are not empty.
C27_Witness ==
  /\ page \in YearPages
  /\ \E k \in 1..Len(rows), m \in 1..Len(rows) :
       /\ k < m
       /\ EmptySeed(rows[k]) /\ EmptySeed(rows[m])
       /\ rows[k].century = rows[m].century
       /\ SourceRow(k)[6] # ""

\* the genre is hidden in the legend
IsHidden(l, k) == IF l = "lineChart" THEN ~visible[k] ELSE k \in hidden[l]

ClickStep == last'.kind = "click"

\* C28: a click on the entry of genre k flips the status of k in that
\* legend and of nothing else; while only clicks have happened a genre
\* is hidden exactly if its entry was clicked an odd number of times;
\* the chart shows what the status says, and a second click on the same
\* entry restores the state.
C28_ClickFlipsOne ==
  /\ [](\A l \in Legends(page), k \in GenreSet :
          /\ display[l][k] = ~IsHidden(l, k)
          /\ nDbl = 0 => (IsHidden(l, k) <=> clicksMod2[l][k] = 1)
          /\ l # "lineChart" => toggle(toggle(hidden[l], k), k) = hidden[l]
          /\ l = "lineChart" => ClickVisible(ClickVisible(visible, k), k) = visible)
  /\ [][ClickStep =>
          \A l \in {"lineChart", "lines", "scatter"}, k \in GenreSet :
            /\ (IsHidden(l, k)' # IsHidden(l, k)) <=> (l = last'.legend /\ k = last'.k)
            /\ (display'[l][k] # display[l][k]) <=> (l = last'.legend /\ k = last'.k)
       ]_<<vars, uiVars>>

\* C28, its case: an entry was clicked an even number of times, the last
\* event being a click on it, while another genre of the same legend and
\* a genre of the other legend stay hidden.
C28_Witness ==
  /\ last.kind = "click"
  /\ last.legend = "lines"
  /\ clicksMod2["lines"][last.k] = 0
  /\ hidden["lines"] # {}
  /\ hidden["scatter"] # {}

\* the six visibility states a double click can leave
OnlyVisible(k) == [gg \in GenreSet |-> gg = k]
AllVisible == [gg \in GenreSet |-> TRUE]

DblClickStep == last'.kind = "dblclick" /\ nDbl' # nDbl

\* C29: a double click on the entry of k makes k the only visible genre,
\* or all six visible when k was the only visible one; from every
\* visibility state click, click, dblclick on k ends as dblclick alone.
C29_DblClickSolo ==
  /\ [](page = "data" =>
          \A k \in GenreSet :
            DblClickVisible(ClickVisible(ClickVisible(visible, k), k), k)
              = DblClickVisible(visible, k))
  /\ [][DblClickStep =>
          /\ visible' = IF visible = OnlyVisible(last'.k) THEN AllVisible
                        ELSE OnlyVisible(last'.k)
          /\ display'["lineChart"] = visible'
       ]_<<vars, uiVars>>

\* C29, its case: every entry was clicked an odd number of times, so all
\* genres were hidden, and then one double click made its genre the only
\* visible one.
C29_Witness ==
  /\ page = "data"
  /\ last.kind = "dblclick"
  /\ nDbl = 1
  /\ \A k \in GenreSet : clicksMod2["lineChart"][k] = 1
  /\ visible = OnlyVisible(last.k)

NumOpen(op) == Cardinality({d \in Details : op[d]})

HandlerStep == ran' # NoRun /\ toggleQueue' # toggleQueue

\* C30: a toggle handler that ran while its element was open leaves
\* every other element closed; one that ran on a closed element changes
\* nothing; no handler opens an element, and every handler run lowers
\* the count of waiting events plus twice the open elements, so the
\* handlers cannot keep one another running; with no event waiting at
\* most one element is open.
C30_AccordionSettles ==
  /\ []((ran # NoRun /\ ran.wasOpen) =>
          \A other \in Details : open[other] <=> other = ran.el)
  /\ [](toggleQueue = <<>> => NumOpen(open) <= 1)
  /\ [][HandlerStep =>
          /\ ~ran'.wasOpen => (open' = open /\ toggleQueue' = Tail(toggleQueue))
          /\ \A d \in Details : open'[d] => open[d]
          /\ Len(toggleQueue') + 2 * NumOpen(open') < Len(toggleQueue) + 2 * NumOpen(open)
       ]_<<vars, uiVars>>

\* C30, its case: the handler of a closed element, whose event came from
\* being closed by another handler, has just returned with one element
\* open and nothing waiting.
C30_Witness ==
  /\ ran # NoRun
  /\ ~ran.wasOpen
  /\ toggleQueue = <<>>
  /\ NumOpen(open) = 1
====
